---- MODULE Spec2Model ----
(***************************************************************************)
(* Model of the cascades-http router component: the main loop that polls   *)
(* the pattern sockets and the request socket, registers routes and        *)
(* dispatches requests (components/router main), the request/response      *)
(* structures of utils/structures.go, and the Router it calls.             *)
(*                                                                         *)
(* Go strings are modelled as sequences of one-character strings, so that  *)
(* strings.Split, strings.TrimSpace and strings.ToUpper are computed.      *)
(* Go slices are 0-indexed; a slice index i is element i+1 of the TLA+     *)
(* sequence that models the slice.                                         *)
(***************************************************************************)
EXTENDS Integers, Sequences, FiniteSets, TLC

\* Number of endpoints given in -port.pattern (and in -port.success).
NumPatterns == 2

----------------------------------------------------------------------------
(* String literals                                                         *)

GET == <<"G", "E", "T">>
POST == <<"P", "O", "S", "T">>
PUT == <<"P", "U", "T">>
DELETE == <<"D", "E", "L", "E", "T", "E">>
HEAD == <<"H", "E", "A", "D">>
OPTIONS == <<"O", "P", "T", "I", "O", "N", "S">>

\* Registration texts offered on the pattern sockets.
TextGetUsersId == <<"G", "E", "T", " ", "/", "u", "s", "e", "r", "s", "/", ":", "i", "d">>
TextPostUsers == <<"P", "O", "S", "T", " ", "/", "u", "s", "e", "r", "s">>
TextGetAX == <<"G", "E", "T", " ", "/", "a", "/", ":", "x">>
TextGetAB == <<"G", "E", "T", " ", "/", "a", "/", "b">>
TextLowerGetAX == <<"g", "e", "t", " ", "/", "a", "/", ":", "x">>
TextPatch == <<"P", "A", "T", "C", "H", " ", "/", "a", "/", "b">>
TextNoSpace == <<"G", "E", "T">>
TextEmpty == <<>>
TextDoubleSpace == <<"G", "E", "T", " ", " ", "/", "a", "/", "b">>
TextLeadingSpace == <<" ", "G", "E", "T", " ", "/", "a", "/", "b">>
TextTrailingNewline == <<"G", "E", "T", " ", "/", "a", "/", "b", "\n">>

Texts ==
  { TextGetUsersId, TextPostUsers, TextGetAX, TextGetAB, TextLowerGetAX,
    TextPatch, TextNoSpace, TextEmpty, TextDoubleSpace, TextLeadingSpace,
    TextTrailingNewline }

\* Request URIs, form keys and values offered on the request socket.
UriUsers7 == <<"/", "u", "s", "e", "r", "s", "/", "7">>
UriUsers == <<"/", "u", "s", "e", "r", "s">>
UriAccounts == <<"/", "a", "c", "c", "o", "u", "n", "t", "s">>
UriAB == <<"/", "a", "/", "b">>
UriA == <<"/", "a">>
UriA12 == <<"/", "a", "/", "1", "/", "2">>
KeyId == <<"i", "d">>
KeyX == <<"x">>
ValOld == <<"o", "l", "d">>

----------------------------------------------------------------------------
(* strings package                                                         *)

LowerLetters ==
  <<"a","b","c","d","e","f","g","h","i","j","k","l","m",
    "n","o","p","q","r","s","t","u","v","w","x","y","z">>

UpperLetters ==
  <<"A","B","C","D","E","F","G","H","I","J","K","L","M",
    "N","O","P","Q","R","S","T","U","V","W","X","Y","Z">>

WhiteSpace == {" ", "\t", "\n", "\r", "\f"}

Range(seq) == {seq[i] : i \in 1..Len(seq)}

\* strings.ToUpper
ToUpper(s) ==
  [i \in 1..Len(s) |->
     IF \E j \in 1..26 : LowerLetters[j] = s[i]
       THEN UpperLetters[CHOOSE j \in 1..26 : LowerLetters[j] = s[i]]
       ELSE s[i]]

\* strings.TrimSpace
TrimSpace(s) ==
  LET keep == {i \in 1..Len(s) : s[i] \notin WhiteSpace}
  IN  IF keep = {} THEN <<>>
      ELSE LET lo == CHOOSE i \in keep : \A j \in keep : i <= j
               hi == CHOOSE i \in keep : \A j \in keep : j <= i
           IN  SubSeq(s, lo, hi)

RECURSIVE Split(_, _)
\* strings.Split with a one-character separator
Split(s, sep) ==
  LET hits == {i \in 1..Len(s) : s[i] = sep}
  IN  IF hits = {} THEN <<s>>
      ELSE LET i == CHOOSE h \in hits : \A g \in hits : h <= g
           IN  <<SubSeq(s, 1, i - 1)>> \o Split(SubSeq(s, i + 1, Len(s)), sep)

----------------------------------------------------------------------------
(* Router: pattern compiler, route table and matcher                       *)

\* Sentinel output indices returned by Router.Route on a miss.
NotFound == -1

MethodNotAllowed == -2

\* Route parameters are a set of [k |-> name, v |-> <<value>>] entries.
Keys(kv) == {e.k : e \in kv}

\* The non-empty slash-delimited segments of a template or of a path.
SplitSegments(s) == SelectSeq(Split(s, "/"), LAMBDA seg : seg # <<>>)

IsParam(seg) == seg # <<>> /\ seg[1] = ":"

ParamName(seg) == Tail(seg)

\* compile: MalformedPattern for an empty template or a repeated parameter.
MalformedPattern(template) ==
  LET segs == SplitSegments(template)
  IN  \/ template = <<>>
      \/ \E i, j \in 1..Len(segs) :
           i # j /\ IsParam(segs[i]) /\ IsParam(segs[j]) /\ segs[i] = segs[j]

Compile(template) == SplitSegments(template)

\* register: append (method, pattern, destination) in registration order;
\* nothing is added for a malformed pattern or a duplicate (method, pattern).
Register(table, method, template, destination) ==
  IF MalformedPattern(template) THEN table
  ELSE IF \E i \in 1..Len(table) :
            table[i].method = method /\ table[i].pattern = Compile(template)
  THEN table
  ELSE Append(table, [method |-> method, pattern |-> Compile(template),
                      destination |-> destination])

\* Variant that accepts a pattern matching a prefix of the request segments.
PatternMatchesPrefix(pattern, segs) ==
  /\ Len(pattern) <= Len(segs)
  /\ \A i \in 1..Len(pattern) : IsParam(pattern[i]) \/ pattern[i] = segs[i]

\* Segment-wise comparison of a compiled pattern with the request segments.
PatternMatches(pattern, segs) ==
  /\ Len(pattern) = Len(segs)
  /\ \A i \in 1..Len(pattern) : IsParam(pattern[i]) \/ pattern[i] = segs[i]

BindParams(pattern, segs) ==
  { [k |-> ParamName(pattern[i]), v |-> <<segs[i]>>] :
      i \in {j \in 1..Len(pattern) : IsParam(pattern[j])} }

\* route: first route in registration order matching path and method; else
\* MethodNotAllowed if some pattern matches the path, else NotFound.
Route(table, method, path) ==
  LET segs == SplitSegments(path)
      full == {i \in 1..Len(table) :
                 PatternMatches(table[i].pattern, segs) /\ table[i].method = method}
      some == {i \in 1..Len(table) : PatternMatches(table[i].pattern, segs)}
  IN  IF full # {}
        THEN LET i == CHOOSE f \in full : \A g \in full : f <= g
             IN  [outputIndex |-> table[i].destination,
                  params |-> BindParams(table[i].pattern, segs)]
      ELSE IF some # {}
        THEN [outputIndex |-> MethodNotAllowed, params |-> {}]
      ELSE [outputIndex |-> NotFound, params |-> {}]

----------------------------------------------------------------------------
(* utils/structures.go: requests, responses and packets                    *)

StatusNotFound == 404

StatusMethodNotAllowed == 405

\* HTTPRequest.Form: a nil map, or a map from key to a list of values.
NilForm == [nil |-> TRUE, kv |-> {}]

MakeForm(kv) == [nil |-> FALSE, kv |-> kv]

Forms ==
  { NilForm, MakeForm({}),
    MakeForm({[k |-> KeyId, v |-> <<ValOld>>]}),
    MakeForm({[k |-> KeyX, v |-> <<ValOld>>]}) }

\* HTTPRequest (the Header map is carried through untouched and is left out).
HTTPRequest ==
  [Id : {"r1", "r2"}, Method : {GET, POST, DELETE},
   URI : {UriUsers7, UriUsers, UriAccounts, UriAB, UriA, UriA12}, Form : Forms]

NoRequest == [Id |-> "", Method |-> <<>>, URI |-> <<>>, Form |-> NilForm]

\* Variant that leaves the response's Id unset.
HTTPResponseWithoutId(id, status) == [Id |-> "", StatusCode |-> status]

\* HTTPResponse as the router builds it: Id and StatusCode only.
HTTPResponse(id, status) == [Id |-> id, StatusCode |-> status]

NoResponse == [Id |-> "", StatusCode |-> 0]

\* Payloads of the packets received on the request socket: text that is
\* not JSON, the JSON literal null, or the JSON encoding of a request.
Payloads ==
  {[json |-> "invalid", req |-> NoRequest], [json |-> "null", req |-> NoRequest]}
    \cup {[json |-> "object", req |-> r] : r \in HTTPRequest}

\* IP2Request: json.Unmarshal into a *HTTPRequest; "err" for invalid JSON,
\* a nil pointer without error for null.
IP2Request(payload) ==
  CASE payload.json = "invalid" -> [err |-> TRUE, isNil |-> FALSE, req |-> NoRequest]
    [] payload.json = "null" -> [err |-> FALSE, isNil |-> TRUE, req |-> NoRequest]
    [] OTHER -> [err |-> FALSE, isNil |-> FALSE, req |-> payload.req]

\* A packet sent on the fail socket or on a success socket.
FailPacket(resp) ==
  [port |-> "fail", index |-> -1, resp |-> resp, req |-> NoRequest]

SuccessPacket(i, req) ==
  [port |-> "success", index |-> i, resp |-> NoResponse, req |-> req]

----------------------------------------------------------------------------
(* Router component: ports and main loop                                   *)

VARIABLES
  pollItems,   \* zmq.PollItems: the sockets still polled, in order
  pLength,     \* len(pollItems) as tracked by the main loop
  routes,      \* the Router's route table
  closed,      \* sockets on which Close has been called
  pc,          \* "polling" (blocked in zmq.Poll), "handled" (message handled,
               \* about to poll again), "panicked" or "exited"
  last,        \* what the last loop iteration received and where it ended
  sent         \* packets sent by the last loop iteration, in order

\* The HTTP client component (client/main.go), a process of its own.
VARIABLES
  clientCfg,      \* which optional ports are configured (the port.* flags)
  clientWaiting,  \* input sockets with a message waiting to be received
  clientInputs,   \* URL, method, headers and data accumulated by the main loop
  clientPc,       \* "polling", "handled", "panicked" or "exited"
  clientLast,     \* what the last loop iteration received and where it ended
  clientSent      \* packets sent by the last loop iteration, in order

routerVars == <<pollItems, pLength, routes, closed, pc, last, sent>>

clientVars ==
  <<clientCfg, clientWaiting, clientInputs, clientPc, clientLast, clientSent>>

vars == <<routerVars, clientVars>>

\* The flag combinations main accepts: port.url and port.method are
\* required, and port.resp or port.body must be given.
ClientConfigs ==
  {c \in [headers : BOOLEAN, form : BOOLEAN, resp : BOOLEAN, body : BOOLEAN,
          err : BOOLEAN] : c.resp \/ c.body}

\* URL = "", method = "", headers = nil, data = nil
NoInputs == [URL |-> "", method |-> <<>>, headers |-> NilForm, data |-> NilForm]

NoClientLast ==
  [op |-> "start", at |-> "start", socket |-> "", used |-> NoInputs]

\* The client on entry to its main loop, configured as c.
ClientStart(c) ==
  /\ clientCfg = c
  /\ clientWaiting = {}
  /\ clientInputs = NoInputs
  /\ clientPc = "polling"
  /\ clientLast = NoClientLast
  /\ clientSent = <<>>


\* openPorts: pattern socket i is patternPorts[i], paired with successPorts[i].
patternPorts == [i \in 1..NumPatterns |-> i - 1]

requestPort == NumPatterns

AllSockets == 0..NumPatterns

NoLast ==
  [op |-> "start", at |-> "start", index |-> -1, socket |-> -1,
   text |-> <<>>, outputIndex |-> -1, req |-> NoRequest, params |-> {}]

\* State on entry to the router's main loop: openPorts, then requestPort
\* appended.
RouterStart ==
  /\ pollItems = Append(patternPorts, requestPort)
  /\ pLength = NumPatterns + 1
  /\ routes = <<>>
  /\ closed = {}
  /\ pc = "polling"
  /\ last = NoLast
  /\ sent = <<>>

\* The router runs; the client is a separate process, left at its start.
Init ==
  /\ RouterStart
  /\ ClientStart([headers |-> FALSE, form |-> FALSE, resp |-> TRUE,
                  body |-> FALSE, err |-> FALSE])

\* zmq.Poll returns with any non-empty set of pollItems readable.
ReadySets(items) == (SUBSET (1..Len(items))) \ {{}}

\* "Resolve socket index": the first poll item with POLLIN set.
ResolveIndex(ready) == (CHOOSE i \in ready : \A j \in ready : i <= j) - 1

\* The indices the loop can resolve after a successful poll.
ReadyIndices(items) == {ResolveIndex(ready) : ready \in ReadySets(items)}

\* Variant of the "Pattern arrived" test that forgets the request socket
\* at the end of the poll set.
IsPatternIndexOffByOne(index, length) == index < length

\* "Pattern arrived" test.
IsPatternIndex(index, length) == index < length - 1

\* "Resolve corresponding output socket index".
ResolveOutputIndex(port) ==
  LET hits == {i \in 1..Len(patternPorts) : patternPorts[i] = port}
  IN  IF hits = {} THEN -1
      ELSE (CHOOSE i \in hits : \A j \in hits : j <= i) - 1

\* Variant that takes the socket's current position in the poll set for
\* its output index.
PatternOutputIndexByPosition(items, index) == index

\* The output index of the pattern socket found at pollItems[index].
PatternOutputIndex(items, index) == ResolveOutputIndex(items[index + 1])

\* append(pollItems[:index], pollItems[index+1:]...)
RemoveAt(items, index) ==
  SubSeq(items, 1, index) \o SubSeq(items, index + 2, Len(items))

SupportedMethods == {GET, POST, PUT, DELETE, HEAD, OPTIONS}

\* The switch on the method: router.Get/Post/Put/Del/Head/Options, or the
\* default branch that only logs.
AddPattern(table, method, pattern, outputIndex) ==
  IF method \in SupportedMethods
    THEN Register(table, method, pattern, outputIndex)
    ELSE table

\* for k, values := range params { req.Form[k] = values }
MergeForm(form, params) ==
  IF params = {} THEN form
  ELSE MakeForm({e \in form.kv : e.k \notin Keys(params)} \cup params)

\* Variant that answers every miss with "not found".
MissStatusAlwaysNotFound(outputIndex) == StatusNotFound

\* Status of the response synthesized for a miss.
MissStatus(outputIndex) ==
  IF outputIndex = NotFound THEN StatusNotFound ELSE StatusMethodNotAllowed

\* zmq.Poll fails: the error is logged and the process exits with status 1.
PollError ==
  /\ pc = "polling"
  /\ UNCHANGED clientVars
  /\ pc' = "exited"
  /\ last' = [NoLast EXCEPT !.op = "poll", !.at = "exit"]
  /\ sent' = <<>>
  /\ UNCHANGED <<pollItems, pLength, routes, closed>>

\* Variant that tests the packet only after a pattern socket was closed
\* and removed from the poll set.
RecvInvalidIPAfterClose(index) ==
  /\ pc = "polling"
  /\ UNCHANGED clientVars
  /\ last' = [NoLast EXCEPT !.op = "recv", !.at = "invalid-ip",
                             !.index = index, !.socket = pollItems[index + 1]]
  /\ sent' = <<>>
  /\ pc' = "handled"
  /\ IF index < pLength - 1
       THEN /\ closed' = closed \cup {pollItems[index + 1]}
            /\ pollItems' = SubSeq(pollItems, 1, index)
                               \o SubSeq(pollItems, index + 2, Len(pollItems))
            /\ pLength' = pLength - 1
            /\ UNCHANGED routes
       ELSE UNCHANGED <<pollItems, pLength, routes, closed>>

\* RecvMultipart returns something that is not a valid IP: continue.
RecvInvalidIP(index) ==
  /\ pc = "polling"
  /\ UNCHANGED clientVars
  /\ last' = [NoLast EXCEPT !.op = "recv", !.at = "invalid-ip",
                                !.index = index, !.socket = pollItems[index + 1]]
  /\ sent' = <<>>
  /\ pc' = "handled"
  /\ UNCHANGED <<pollItems, pLength, routes, closed>>

\* RecvMultipart returns a valid IP together with an error: continue.
RecvFailed(index) ==
  /\ pc = "polling"
  /\ UNCHANGED clientVars
  /\ last' = [NoLast EXCEPT !.op = "recv", !.at = "recv-error",
                                !.index = index, !.socket = pollItems[index + 1]]
  /\ sent' = <<>>
  /\ pc' = "handled"
  /\ UNCHANGED <<pollItems, pLength, routes, closed>>

\* A valid IP with payload text arrives on a pattern socket.
PatternArrived(index, text) ==
  /\ pc = "polling"
  /\ UNCHANGED clientVars
  /\ LET port == pollItems[index + 1]
         outputIndex == PatternOutputIndex(pollItems, index)
         parts == Split(text, " ")
         method == ToUpper(TrimSpace(parts[1]))
         pattern == TrimSpace(parts[2])
         info == [NoLast EXCEPT !.op = "pattern", !.index = index,
                                !.socket = port, !.text = text,
                                !.outputIndex = outputIndex]
     IN  /\ IsPatternIndex(index, pLength)
         /\ sent' = <<>>
         /\ IF outputIndex = -1
              THEN \* socket closed, then "Failed to resolve output socket index"
                   /\ closed' = closed \cup {port}
                   /\ last' = [info EXCEPT !.at = "unresolved"]
                   /\ pc' = "handled"
                   /\ UNCHANGED <<pollItems, pLength, routes>>
            ELSE IF Len(parts) < 2
              THEN \* parts[1]: index out of range; the deferred closePorts runs
                   /\ pollItems' = RemoveAt(pollItems, index)
                   /\ pLength' = pLength - 1
                   /\ closed' = AllSockets
                   /\ pc' = "panicked"
                   /\ last' = [info EXCEPT !.at = "panic"]
                   /\ UNCHANGED routes
            ELSE /\ closed' = closed \cup {port}
                 /\ pollItems' = RemoveAt(pollItems, index)
                 /\ pLength' = pLength - 1
                 /\ routes' = AddPattern(routes, method, pattern, outputIndex)
                 /\ last' = [info EXCEPT
                      !.at = IF method \notin SupportedMethods THEN "unsupported"
                             ELSE IF routes' = routes THEN "rejected"
                             ELSE "registered"]
                 /\ pc' = "handled"

\* A valid IP arrives on the request socket.
RequestArrived(index, payload) ==
  /\ pc = "polling"
  /\ UNCHANGED clientVars
  /\ LET port == pollItems[index + 1]
         conv == IP2Request(payload)
         req == conv.req
         res == Route(routes, req.Method, req.URI)
         info == [NoLast EXCEPT !.op = "request", !.index = index,
                                !.socket = port]
         routed == [info EXCEPT !.req = req, !.outputIndex = res.outputIndex,
                                !.params = res.params]
     IN  /\ ~IsPatternIndex(index, pLength)
         /\ UNCHANGED <<pollItems, pLength, routes>>
         /\ IF conv.err
              THEN \* "Failed to convert IP to request": continue
                   /\ last' = [info EXCEPT !.at = "bad-request"]
                   /\ sent' = <<>>
                   /\ pc' = "handled"
                   /\ UNCHANGED closed
            ELSE IF conv.isNil
              THEN \* req.Method on a nil *HTTPRequest
                   /\ last' = [info EXCEPT !.at = "nil-request"]
                   /\ sent' = <<>>
                   /\ closed' = AllSockets
                   /\ pc' = "panicked"
            ELSE IF res.outputIndex \in {NotFound, MethodNotAllowed}
              THEN /\ last' = [routed EXCEPT !.at = "miss"]
                   /\ sent' = <<FailPacket(HTTPResponse(req.Id,
                                              MissStatus(res.outputIndex)))>>
                   /\ pc' = "handled"
                   /\ UNCHANGED closed
            ELSE IF \/ res.params # {} /\ req.Form.nil
                    \/ res.outputIndex \notin 0..(NumPatterns - 1)
              THEN \* assignment to entry in nil map, or successPorts out of range
                   /\ last' = [routed EXCEPT !.at =
                        IF res.params # {} /\ req.Form.nil THEN "nil-form"
                        ELSE "bad-index"]
                   /\ sent' = <<>>
                   /\ closed' = AllSockets
                   /\ pc' = "panicked"
            ELSE /\ last' = [routed EXCEPT !.at = "forwarded"]
                 /\ sent' = <<SuccessPacket(res.outputIndex,
                                [req EXCEPT !.Form = MergeForm(req.Form, res.params)])>>
                 /\ pc' = "handled"
                 /\ UNCHANGED closed

\* "continue", or the end of the loop body: back to zmq.Poll.
Continue ==
  /\ pc = "handled"
  /\ UNCHANGED clientVars
  /\ pc' = "polling"
  /\ last' = NoLast
  /\ sent' = <<>>
  /\ UNCHANGED <<pollItems, pLength, routes, closed>>

Next ==
  \/ Continue
  \/ PollError
  \/ \E index \in ReadyIndices(pollItems) : RecvInvalidIP(index)
  \/ \E index \in ReadyIndices(pollItems) : RecvFailed(index)
  \/ \E index \in ReadyIndices(pollItems), text \in Texts :
       PatternArrived(index, text)
  \/ \E index \in ReadyIndices(pollItems), payload \in Payloads :
       RequestArrived(index, payload)

Spec == Init /\ [][Next]_vars

----------------------------------------------------------------------------
(* Client component: main loop                                             *)

\* The URL is never taken apart by the client, so it is kept as a whole.
UrlGood == "http://host/path"

UrlUnparsable == "http://host/%zz"

MethodLowerGet == <<"g", "e", "t">>

MethodWithSpace == <<"G", "E", " ", "T">>

\* Payload of a packet on the URL socket, on the METHOD socket, and the JSON
\* payload of a packet on the HEADERS or FORM socket.
UrlPayload(u) == [url |-> u, text |-> <<>>, json |-> "", kv |-> {}]

MethodPayload(t) == [url |-> "", text |-> t, json |-> "", kv |-> {}]

JsonPayload(kind, kv) == [url |-> "", text |-> <<>>, json |-> kind, kv |-> kv]

\* What the sources offer: "invalid" is text that is not JSON, "null" the
\* JSON literal, "object" an object of string lists, "mismatch" an object
\* with a value that is not a list of strings.
ClientPayloads(socket) ==
  CASE socket = "url" ->
         {UrlPayload(""), UrlPayload(UrlGood), UrlPayload(UrlUnparsable)}
    [] socket = "method" ->
         {MethodPayload(<<>>), MethodPayload(GET), MethodPayload(MethodLowerGet),
          MethodPayload(MethodWithSpace)}
    [] socket = "headers" ->
         {JsonPayload("invalid", {}), JsonPayload("null", {}),
          JsonPayload("object", {[k |-> <<"a">>, v |-> << <<"v">> >>]}),
          JsonPayload("object", {[k |-> <<"b">>, v |-> <<>>]}),
          JsonPayload("mismatch", {[k |-> <<"b">>, v |-> <<>>]})}
    [] socket = "form" ->
         {JsonPayload("invalid", {}), JsonPayload("null", {}),
          JsonPayload("object", {[k |-> <<"k">>, v |-> << <<"v">> >>]})}
    [] OTHER -> {}

\* The poll items: URL, METHOD, then HEADERS and FORM if configured.
ClientPollItems(c) ==
  <<"url", "method">> \o (IF c.headers THEN <<"headers">> ELSE <<>>)
                      \o (IF c.form THEN <<"form">> ELSE <<>>)

\* The first poll item with POLLIN set.
ClientResolveSocket(items, waiting) ==
  items[CHOOSE i \in 1..Len(items) :
          items[i] \in waiting /\ \A j \in 1..(i - 1) : items[j] \notin waiting]

\* json.Unmarshal into a map variable: invalid text leaves it alone, null
\* sets it to nil, an object is stored key by key into the (allocated) map;
\* a value of the wrong type is stored as an empty list and reported.
UnmarshalMap(old, payload) ==
  CASE payload.json = "invalid" -> [err |-> TRUE, val |-> old]
    [] payload.json = "null" -> [err |-> FALSE, val |-> NilForm]
    [] OTHER ->
         [err |-> payload.json = "mismatch",
          val |-> MakeForm({e \in old.kv : e.k \notin Keys(payload.kv)}
                             \cup payload.kv)]

\* Variant of the completeness test that forgets the HEADERS port.
ReadyToCallIgnoringHeaders(c, inputs) ==
  ~(\/ inputs.method = <<>>
    \/ inputs.URL = ""
    \/ c.form /\ inputs.data.nil)

\* The negation of the "continue" test before the request is built.
ReadyToCall(c, inputs) ==
  ~(\/ inputs.method = <<>>
    \/ inputs.URL = ""
    \/ c.headers /\ inputs.headers.nil
    \/ c.form /\ inputs.data.nil)

\* http.NewRequest returns an error for a method that is not a token and
\* for a URL that does not parse.
NewRequestFails(inputs) ==
  \/ inputs.method = <<>>
  \/ \E i \in 1..Len(inputs.method) : inputs.method[i] \in WhiteSpace
  \/ inputs.URL = UrlUnparsable

\* request.Header.Add(k, v[0]) panics for a header with no value.
HeaderLoopPanics(inputs) == \E e \in inputs.headers.kv : e.v = <<>>

\* A call attempt ends with an error of client.Do, of Response2Response or
\* of Response2IP, or with a response.
CallOutcomes == {"call-error", "convert-error", "packet-error", "ok"}

ClientPacket(port, used) == [port |-> port, used |-> used]

\* Variant that forwards the body although the call failed.
CallOutputsBodyOnError(c, outcome, used) ==
  IF outcome = "ok"
    THEN (IF c.resp THEN <<ClientPacket("resp", used)>> ELSE <<>>)
           \o (IF c.body THEN <<ClientPacket("body", used)>> ELSE <<>>)
    ELSE (IF c.err THEN <<ClientPacket("err", used)>> ELSE <<>>)
           \o (IF c.body THEN <<ClientPacket("body", used)>> ELSE <<>>)

\* The packets sent after a call attempt.
CallOutputs(c, outcome, used) ==
  IF outcome = "ok"
    THEN (IF c.resp THEN <<ClientPacket("resp", used)>> ELSE <<>>)
           \o (IF c.body THEN <<ClientPacket("body", used)>> ELSE <<>>)
    ELSE IF c.err THEN <<ClientPacket("err", used)>> ELSE <<>>

\* Variant that clears only method and URL when the call failed.
InputsAfterCallKeepingMaps(inputs, outcome) ==
  IF outcome = "ok" THEN NoInputs
  ELSE [inputs EXCEPT !.method = <<>>, !.URL = ""]

\* method = "", URL = "", headers = nil, data = nil after every call attempt.
InputsAfterCall(inputs, outcome) == NoInputs

\* A message arrives on an input socket of the running client.
ClientArrive(socket) ==
  /\ clientPc = "polling"
  /\ socket \in Range(ClientPollItems(clientCfg))
  /\ socket \notin clientWaiting
  /\ clientWaiting' = clientWaiting \cup {socket}
  /\ UNCHANGED <<clientCfg, clientInputs, clientPc, clientLast, clientSent>>
  /\ UNCHANGED routerVars

\* zmq.Poll fails: logged, continue.
ClientPollError ==
  /\ clientPc = "polling"
  /\ clientPc' = "handled"
  /\ clientLast' = [NoClientLast EXCEPT !.op = "poll", !.at = "poll-error"]
  /\ clientSent' = <<>>
  /\ UNCHANGED <<clientCfg, clientWaiting, clientInputs>>
  /\ UNCHANGED routerVars

\* RecvMultipart fails: logged, continue; the message may or may not have
\* been taken from the socket.
ClientRecvFailed ==
  /\ clientPc = "polling"
  /\ clientWaiting # {}
  /\ LET socket == ClientResolveSocket(ClientPollItems(clientCfg), clientWaiting)
     IN  /\ clientWaiting' \in {clientWaiting, clientWaiting \ {socket}}
         /\ clientLast' = [NoClientLast EXCEPT !.op = "recv", !.at = "recv-error",
                                               !.socket = socket]
  /\ clientPc' = "handled"
  /\ clientSent' = <<>>
  /\ UNCHANGED <<clientCfg, clientInputs>>
  /\ UNCHANGED routerVars

\* The received message is not a valid IP: logged, continue.
ClientRecvInvalidIP ==
  /\ clientPc = "polling"
  /\ clientWaiting # {}
  /\ LET socket == ClientResolveSocket(ClientPollItems(clientCfg), clientWaiting)
     IN  /\ clientWaiting' = clientWaiting \ {socket}
         /\ clientLast' = [NoClientLast EXCEPT !.op = "recv", !.at = "invalid-ip",
                                               !.socket = socket]
  /\ clientPc' = "handled"
  /\ clientSent' = <<>>
  /\ UNCHANGED <<clientCfg, clientInputs>>
  /\ UNCHANGED routerVars

\* A valid IP is received: the input is stored and, once the inputs are
\* complete, the request is built and the call attempted, ending as outcome.
ClientReceive(payload, outcome) ==
  /\ clientPc = "polling"
  /\ clientWaiting # {}
  /\ LET socket == ClientResolveSocket(ClientPollItems(clientCfg), clientWaiting)
         hdrs == UnmarshalMap(clientInputs.headers, payload)
         form == UnmarshalMap(clientInputs.data, payload)
         failed == \/ socket = "headers" /\ hdrs.err
                   \/ socket = "form" /\ form.err
         inputs ==
           CASE socket = "url" -> [clientInputs EXCEPT !.URL = payload.url]
             [] socket = "method" ->
                  [clientInputs EXCEPT !.method = ToUpper(payload.text)]
             [] socket = "headers" -> [clientInputs EXCEPT !.headers = hdrs.val]
             [] OTHER -> [clientInputs EXCEPT !.data = form.val]
         info == [NoClientLast EXCEPT !.op = "input", !.socket = socket]
     IN  /\ payload \in ClientPayloads(socket)
         /\ clientWaiting' = clientWaiting \ {socket}
         /\ UNCHANGED <<clientCfg, routerVars>>
         /\ IF failed
              THEN \* "failed to unmarchal": continue
                   /\ clientInputs' = inputs
                   /\ clientLast' = [info EXCEPT !.at = "bad-json"]
                   /\ clientSent' = <<>>
                   /\ clientPc' = "handled"
            ELSE IF ~ReadyToCall(clientCfg, inputs)
              THEN /\ clientInputs' = inputs
                   /\ clientLast' = [info EXCEPT !.at = "incomplete"]
                   /\ clientSent' = <<>>
                   /\ clientPc' = "handled"
            ELSE IF NewRequestFails(inputs)
              THEN \* assertError: the error is printed and the process exits
                   /\ clientInputs' = inputs
                   /\ clientLast' = [info EXCEPT !.at = "exit", !.used = inputs]
                   /\ clientSent' = <<>>
                   /\ clientPc' = "exited"
            ELSE IF HeaderLoopPanics(inputs)
              THEN /\ clientInputs' = inputs
                   /\ clientLast' = [info EXCEPT !.at = "panic", !.used = inputs]
                   /\ clientSent' = <<>>
                   /\ clientPc' = "panicked"
            ELSE /\ clientInputs' = InputsAfterCall(inputs, outcome)
                 /\ clientLast' = [info EXCEPT !.op = "call", !.at = outcome,
                                               !.used = inputs]
                 /\ clientSent' = CallOutputs(clientCfg, outcome, inputs)
                 /\ clientPc' = "handled"

\* "continue", or the end of the loop body: back to zmq.Poll.
ClientContinue ==
  /\ clientPc = "handled"
  /\ clientPc' = "polling"
  /\ clientLast' = NoClientLast
  /\ clientSent' = <<>>
  /\ UNCHANGED <<clientCfg, clientWaiting, clientInputs>>
  /\ UNCHANGED routerVars

\* One step of the client process itself (not of its sources).
ClientStep ==
  \/ ClientContinue
  \/ ClientPollError
  \/ ClientRecvFailed
  \/ ClientRecvInvalidIP
  \/ \E socket \in {"url", "method", "headers", "form"} :
       \E payload \in ClientPayloads(socket), outcome \in CallOutcomes :
         ClientReceive(payload, outcome)

ClientNext ==
  \/ \E socket \in {"url", "method", "headers", "form"} : ClientArrive(socket)
  \/ ClientContinue
  \/ ClientPollError
  \/ ClientRecvFailed
  \/ ClientRecvInvalidIP
  \/ \E socket \in {"url", "method", "headers", "form"} :
       \E payload \in ClientPayloads(socket), outcome \in CallOutcomes :
         ClientReceive(payload, outcome)

\* The client runs under any accepted configuration; the router is left at
\* its start.
ClientInit == RouterStart /\ \E c \in ClientConfigs : ClientStart(c)

ClientSpec == ClientInit /\ [][ClientNext]_vars

\* The loop always goes on when it can, and receiving does not fail for ever.
ClientReceiveAny ==
  \E socket \in {"url", "method", "headers", "form"} :
    \E payload \in ClientPayloads(socket), outcome \in CallOutcomes :
      ClientReceive(payload, outcome)

\* The client with every optional port configured.
ClientFairInit ==
  /\ RouterStart
  /\ ClientStart([headers |-> TRUE, form |-> TRUE, resp |-> TRUE,
                  body |-> TRUE, err |-> TRUE])

ClientFairSpec ==
  /\ ClientFairInit
  /\ [][ClientNext]_vars
  /\ WF_vars(ClientStep)
  /\ SF_vars(ClientReceiveAny)

----------------------------------------------------------------------------
(* Properties                                                              *)

\* The pattern sources that are still polled.
Pending == Range(pollItems) \ {requestPort}

\* The last iteration passed a request to Router.Route.
Routed == last.op = "request" /\ last.at \in {"miss", "forwarded", "nil-form", "bad-index"}

\* C1: a request is passed to Router.Route only when no pattern source is
\* pending any more (registration and dispatch never interleave).
C1_NoRouteWhilePending == Routed => Pending = {}

\* C2: a registration message that fails to parse (no pattern part, or an
\* unsupported method) leaves its source pending: still polled, not closed.
C2_ParseFailureKeepsSourcePending ==
  (last.op = "pattern" /\ last.at \in {"unsupported", "panic"})
    => (last.socket \in Pending /\ last.socket \notin closed)

\* C3: whatever the text of a valid packet received on a pattern source,
\* the main loop survives it and goes on polling.
C3_MalformedRegistrationSurvives == last.op = "pattern" => pc = "handled"

\* C4: every key present in the request's Form before routing keeps its
\* value in the forwarded request.
C4_FormKeysNotOverwritten ==
  (last.op = "request" /\ last.at = "forwarded")
    => \A e \in last.req.Form.kv : e \in sent[1].req.Form.kv

\* C5: a route registered from pattern source k is bound to destination k
\* (found by socket identity, whatever the source's position in the poll
\* set), and a consumed source leaves the poll set and is never read again.
C5_DestinationByIdentity ==
  /\ [](/\ (last.op = "pattern" /\ last.at = "registered")
             => /\ last.socket \in 0..(NumPatterns - 1)
                /\ last.outputIndex = last.socket
                /\ routes[Len(routes)].destination = last.socket
        /\ \A i \in 1..Len(routes) :
             /\ routes[i].destination \in 0..(NumPatterns - 1)
             /\ routes[i].destination \notin Pending)
  /\ [][/\ Range(pollItems') \subseteq Range(pollItems)
        /\ (pc = "polling" /\ pc' \in {"handled", "panicked"})
             => last'.socket \in Range(pollItems)
        /\ (last'.op = "pattern" /\ last'.at # "unresolved")
             => last'.socket \notin Range(pollItems')]_vars

\* C5 witness: a route is registered from a source whose position in the
\* poll set differs from its identity.
C5_Witness ==
  /\ last.op = "pattern" /\ last.at = "registered"
  /\ last.index # last.socket
  /\ routes[Len(routes)].destination = last.socket

\* C6: once no pattern source is pending, that stays so, the route table is
\* never modified again, and every message received is handled as a request.
C6_DispatchIsIrreversible ==
  [][Pending = {} =>
       /\ Pending' = {}
       /\ routes' = routes
       /\ (pc = "polling" /\ pc' \in {"handled", "panicked"})
            => last'.op \in {"request", "recv"}]_vars

\* C6 witness: a request is forwarded after all pattern sources were consumed.
C6_Witness ==
  Pending = {} /\ routes # <<>> /\ last.op = "request" /\ last.at = "forwarded"

\* C7: every routed request produces exactly one packet and no crash: a 404
\* response on fail for NotFound, a 405 response on fail for
\* MethodNotAllowed, otherwise the request on the matched success socket.
C7_ExactlyOneOutput ==
  Routed =>
    /\ pc = "handled"
    /\ Len(sent) = 1
    /\ CASE last.outputIndex = NotFound ->
              sent[1] = FailPacket(HTTPResponse(last.req.Id, StatusNotFound))
         [] last.outputIndex = MethodNotAllowed ->
              sent[1] = FailPacket(HTTPResponse(last.req.Id, StatusMethodNotAllowed))
         [] OTHER ->
              sent[1].port = "success" /\ sent[1].index = last.outputIndex

\* The route tables of the end-to-end scenario: "GET /users/:id" registered
\* from pattern source 0 and "POST /users" from pattern source 1.
RouteGetUsersId ==
  [method |-> GET, destination |-> 0,
   pattern |-> << <<"u", "s", "e", "r", "s">>, <<":", "i", "d">> >>]

RoutePostUsers ==
  [method |-> POST, destination |-> 1,
   pattern |-> << <<"u", "s", "e", "r", "s">> >>]

EndToEndTable ==
  routes \in {<<RouteGetUsersId, RoutePostUsers>>, <<RoutePostUsers, RouteGetUsersId>>}

LastIs(method, uri) ==
  last.op = "request" /\ last.at \notin {"bad-request", "nil-request"}
    /\ last.req.Method = method /\ last.req.URI = uri

\* C8: with that table, in either registration order, GET /users/7 is
\* forwarded on success 0 with id=7 added, POST /users on success 1 with
\* nothing added, DELETE /users gets a 405 and GET /accounts a 404 on fail.
C8_EndToEnd ==
  EndToEndTable =>
    /\ LastIs(GET, UriUsers7) =>
         /\ Len(sent) = 1 /\ sent[1].port = "success" /\ sent[1].index = 0
         /\ [k |-> KeyId, v |-> << <<"7">> >>] \in sent[1].req.Form.kv
         /\ sent[1].req.Id = last.req.Id
    /\ LastIs(POST, UriUsers) =>
         sent = <<SuccessPacket(1, last.req)>>
    /\ LastIs(DELETE, UriUsers) =>
         sent = <<FailPacket(HTTPResponse(last.req.Id, StatusMethodNotAllowed))>>
    /\ LastIs(GET, UriAccounts) =>
         sent = <<FailPacket(HTTPResponse(last.req.Id, StatusNotFound))>>

\* Some registered pattern matches the path, under any method.
PathKnown(path) ==
  \E i \in 1..Len(routes) : PatternMatches(routes[i].pattern, SplitSegments(path))

\* Some registered route matches the path and the method.
RouteKnown(method, path) ==
  \E i \in 1..Len(routes) :
    /\ PatternMatches(routes[i].pattern, SplitSegments(path))
    /\ routes[i].method = method

\* C9: a request whose path matches some pattern, but none under its method,
\* is answered MethodNotAllowed (405), never NotFound; NotFound (404) is
\* answered only when no pattern matches the path under any method.
C9_MethodNotAllowedNotNotFound ==
  Routed =>
    /\ (PathKnown(last.req.URI) /\ ~RouteKnown(last.req.Method, last.req.URI))
         => /\ last.outputIndex = MethodNotAllowed
            /\ sent = <<FailPacket(HTTPResponse(last.req.Id, StatusMethodNotAllowed))>>
    /\ (\/ last.outputIndex = NotFound
        \/ \E i \in 1..Len(sent) : sent[i].resp.StatusCode = StatusNotFound)
         => ~PathKnown(last.req.URI)
    /\ ~PathKnown(last.req.URI)
         => sent = <<FailPacket(HTTPResponse(last.req.Id, StatusNotFound))>>

\* C9 witness: a known path requested under another method is answered 405.
C9_Witness ==
  /\ Routed
  /\ PathKnown(last.req.URI) /\ ~RouteKnown(last.req.Method, last.req.URI)
  /\ sent = <<FailPacket(HTTPResponse(last.req.Id, StatusMethodNotAllowed))>>

\* C10: when several routes with the request's method match the path, the
\* request goes to the one registered first: with (GET, /a/:x) registered
\* before (GET, /a/b), GET /a/b is forwarded to the /a/:x destination with x=b.
C10_FirstRegisteredWins ==
  \A i, j \in 1..Len(routes) :
    ( /\ i < j
      /\ routes[i].method = GET /\ routes[i].pattern = << <<"a">>, <<":", "x">> >>
      /\ routes[j].method = GET /\ routes[j].pattern = << <<"a">>, <<"b">> >>
      /\ LastIs(GET, UriAB) )
    => /\ Len(sent) = 1 /\ sent[1].port = "success"
       /\ sent[1].index = routes[i].destination
       /\ [k |-> KeyX, v |-> << <<"b">> >>] \in sent[1].req.Form.kv

\* C8 and C10 restricted to requests that carry a (possibly empty) Form:
\* the stated outcomes hold for those.
C8_EndToEndGivenForm ==
  (last.op = "request" /\ last.req.Form.nil) \/ C8_EndToEnd

C10_FirstRegisteredWinsGivenForm ==
  (last.op = "request" /\ last.req.Form.nil) \/ C10_FirstRegisteredWins

\* The number of non-empty slash-delimited segments of a string.
SegmentCount(s) == Cardinality({i \in 1..Len(s) : s[i] # "/" /\ (i = 1 \/ s[i - 1] = "/")})

\* C11: a request is forwarded only to the destination of a route whose
\* pattern has as many segments as the request path; with /a/:x registered,
\* the paths /a and /a/1/2 are answered with a miss on the fail socket
\* unless another route matches them.
C11_SegmentCountsEqual ==
  Routed =>
    /\ last.outputIndex \notin {NotFound, MethodNotAllowed}
         => \E i \in 1..Len(routes) :
              /\ routes[i].destination = last.outputIndex
              /\ routes[i].method = last.req.Method
              /\ Len(routes[i].pattern) = SegmentCount(last.req.URI)
    /\ ( /\ last.req.URI \in {UriA, UriA12}
         /\ \A i \in 1..Len(routes) :
              Len(routes[i].pattern) # SegmentCount(last.req.URI) )
         => /\ last.at = "miss"
            /\ sent = <<FailPacket(HTTPResponse(last.req.Id, StatusNotFound))>>

\* C11 witness: /a/:x is registered and GET /a/1/2 is answered with a miss.
C11_Witness ==
  /\ Routed /\ last.req.URI = UriA12 /\ last.req.Method = GET
  /\ \E i \in 1..Len(routes) :
       routes[i].method = GET /\ routes[i].pattern = << <<"a">>, <<":", "x">> >>
  /\ last.at = "miss" /\ Len(sent) = 1 /\ sent[1].port = "fail"

\* C12: a transport failure in the main loop (an error from polling or from
\* receiving) is logged and the loop goes on; the process does not exit.
C12_TransportFailureContinues ==
  (last.op = "poll" \/ (last.op = "recv" /\ last.at = "recv-error"))
    => pc = "handled"

\* The route (GET, /a/b) is in the table.
HasRouteGetAB ==
  \E i \in 1..Len(routes) :
    routes[i].method = GET /\ routes[i].pattern = << <<"a">>, <<"b">> >>

\* The route (GET, /a/:x) is in the table.
HasRouteGetAX ==
  \E i \in 1..Len(routes) :
    routes[i].method = GET /\ routes[i].pattern = << <<"a">>, <<":", "x">> >>

\* C13: registration messages that differ only in the case of the method
\* or in leading, trailing or extra separating whitespace register the same
\* route: each variant of "GET /a/b" puts (GET, /a/b) in the table, and
\* each variant of "GET /a/:x" puts (GET, /a/:x) there.
C13_CaseAndWhitespaceInsensitive ==
  last.op = "pattern" =>
    /\ last.text \in {TextGetAB, TextDoubleSpace, TextLeadingSpace, TextTrailingNewline}
         => HasRouteGetAB
    /\ last.text \in {TextGetAX, TextLowerGetAX} => HasRouteGetAX

\* C19: a packet that is not a valid IP is dropped without effect: the
\* route table, the poll set, the closed sockets are unchanged and nothing
\* is sent.
C19_InvalidIPHasNoEffect ==
  [][(pc = "polling" /\ last'.op = "recv" /\ last'.at = "invalid-ip")
       => /\ routes' = routes
          /\ pollItems' = pollItems /\ pLength' = pLength
          /\ closed' = closed
          /\ last'.socket \notin closed'
          /\ sent' = <<>>
          /\ pc' = "handled"]_vars

\* C19 witness: an invalid packet was dropped on a pattern source that is
\* still pending.
C19_Witness ==
  /\ last.op = "recv" /\ last.at = "invalid-ip"
  /\ last.socket \in Pending /\ last.socket \notin closed
  /\ sent = <<>>

\* C20: a synthesized fail response carries the Id of the request it
\* answers, and a forwarded request keeps its Id, Method and URI.
C20_IdsPreserved ==
  (Routed /\ sent # <<>>) =>
    \A i \in 1..Len(sent) :
      /\ sent[i].port = "fail" => sent[i].resp.Id = last.req.Id
      /\ sent[i].port = "success"
           => /\ sent[i].req.Id = last.req.Id
              /\ sent[i].req.Method = last.req.Method
              /\ sent[i].req.URI = last.req.URI

\* C20 witness: the request with Id "r2" is answered on the fail socket
\* with a response carrying "r2".
C20_Witness ==
  /\ Routed /\ last.req.Id = "r2" /\ last.at = "miss"
  /\ Len(sent) = 1 /\ sent[1].port = "fail" /\ sent[1].resp.Id = "r2"

\* C14: source selection is fair: a message waiting on an input source of
\* the running client is eventually received, whatever arrives on the
\* other sources.
C14_FairSelection ==
  \A socket \in {"url", "method", "headers", "form"} :
    (socket \in clientWaiting)
      ~> (socket \notin clientWaiting \/ clientPc \in {"exited", "panicked"})

\* How many packets the last iteration sent on a port.
SentOn(port) == Cardinality({i \in 1..Len(clientSent) : clientSent[i].port = port})

\* C15: a call attempt that succeeds sends the response on RESP and the
\* body on BODY (each if configured) and nothing on ERR; one that fails
\* sends only an error on ERR (if configured).
C15_OneKindOfOutcome ==
  clientLast.op = "call" =>
    /\ \A i \in 1..Len(clientSent) : clientSent[i].used = clientLast.used
    /\ IF clientLast.at = "ok"
         THEN /\ SentOn("resp") = (IF clientCfg.resp THEN 1 ELSE 0)
              /\ SentOn("body") = (IF clientCfg.body THEN 1 ELSE 0)
              /\ SentOn("err") = 0
         ELSE /\ SentOn("err") = (IF clientCfg.err THEN 1 ELSE 0)
              /\ SentOn("resp") = 0
              /\ SentOn("body") = 0

\* C15 witness: with RESP, BODY and ERR configured, a failed call sent one
\* packet, on ERR.
C15_Witness ==
  /\ clientLast.op = "call" /\ clientLast.at = "call-error"
  /\ clientCfg.resp /\ clientCfg.body /\ clientCfg.err
  /\ Len(clientSent) = 1 /\ clientSent[1].port = "err"

\* C16: a method/URL pair from which no request can be built is reported
\* on the error output and the client keeps running.
C16_BadRequestIsReported ==
  (clientLast.op = "input" /\ clientLast.used # NoInputs
     /\ NewRequestFails(clientLast.used))
    => /\ clientPc = "handled"
       /\ clientCfg.err => SentOn("err") = 1

\* The input a socket feeds.
InputOf(inputs, socket) ==
  CASE socket = "url" -> <<inputs.URL>>
    [] socket = "method" -> <<inputs.method>>
    [] socket = "headers" -> <<inputs.headers>>
    [] OTHER -> <<inputs.data>>

\* C17: a call is attempted only with a non-empty URL and method, with
\* headers if HEADERS is configured and with form data if FORM is
\* configured; an input changes only when a message is received on its
\* socket or when a call attempt clears it, and the inputs used by a call
\* are those accumulated plus the one just received.
C17_CallNeedsCompleteInputs ==
  /\ [](clientLast.op = "call" =>
          /\ clientLast.used.URL # ""
          /\ clientLast.used.method # <<>>
          /\ clientCfg.headers => ~clientLast.used.headers.nil
          /\ clientCfg.form => ~clientLast.used.data.nil)
  /\ [][\A socket \in {"url", "method", "headers", "form"} :
          /\ InputOf(clientInputs', socket) # InputOf(clientInputs, socket)
               => (clientLast'.socket = socket \/ clientLast'.op = "call")
          /\ clientLast'.op = "call"
               => \/ InputOf(clientLast'.used, socket) = InputOf(clientInputs, socket)
                  \/ clientLast'.socket = socket]_vars

\* C17 witness: with HEADERS and FORM configured, a call is attempted with
\* all four inputs.
C17_Witness ==
  /\ clientLast.op = "call"
  /\ clientCfg.headers /\ clientCfg.form
  /\ clientLast.used.URL = UrlGood /\ clientLast.used.method = GET
  /\ ~clientLast.used.headers.nil /\ ~clientLast.used.data.nil

\* C18: after every call attempt, successful or not, URL, method, headers
\* and form data are all cleared.
C18_InputsClearedAfterCall ==
  clientLast.op = "call" => clientInputs = NoInputs

\* C18 witness: a failed call that used headers and form data left no input.
C18_Witness ==
  /\ clientLast.op = "call" /\ clientLast.at # "ok"
  /\ clientLast.used.headers.kv # {} /\ clientLast.used.data.kv # {}
  /\ clientInputs = NoInputs

====
